---- MODULE Spec2Model ----
(***************************************************************************)
(* Model of src/ATM.c++: the Account, Transaction (Deposit / Withdrawal)   *)
(* and ATM classes, and the console session loop of main().                *)
(*                                                                         *)
(* Three specifications share the state:                                   *)
(*   Spec     the program: main() from the seeded accounts on;             *)
(*   TxSpec   Account and ATM driven call by call (select_transaction,     *)
(*            deposit, withdraw, check_balance) on constructed accounts;   *)
(*   RegSpec  the registry driven call by call (constructor, add_account,  *)
(*            verify_pin); arguments are drawn from small sets.            *)
(*                                                                         *)
(* A C++ double is modelled as a record: a finite value (an integer, on    *)
(* which + and - are exact below 2^53), an infinity with a sign, or NaN,   *)
(* with the IEEE-754 rules for comparison and for + and - on them.         *)
(***************************************************************************)
EXTENDS Integers, Sequences, FiniteSets, TLC

(* ---------------------------- bounds ----------------------------------- *)
\* finite balances are kept within -MaxBalance .. MaxBalance by the guards
MaxBalance == 1500
\* finite balances of the call-by-call specifications: -TxMaxBalance .. TxMaxBalance
TxMaxBalance == 2
\* the call-by-call specifications construct this many accounts
MaxAccounts == 2
\* and make this many add_account calls at most
MaxRegistrations == 3

(* ---------------------------- doubles ---------------------------------- *)
Fin(n) == [k |-> "fin", v |-> n]
PInf == [k |-> "inf", v |-> 1]
NInf == [k |-> "inf", v |-> -1]
NaN == [k |-> "nan", v |-> 0]

IsNaN(x) == x.k = "nan"

\* x < y on doubles: false when either side is NaN
DLt(x, y) ==
  /\ ~IsNaN(x)
  /\ ~IsNaN(y)
  /\ CASE x.k = "fin" /\ y.k = "fin" -> x.v < y.v
       [] x.k = "inf" /\ y.k = "fin" -> x.v < 0
       [] x.k = "fin" /\ y.k = "inf" -> y.v > 0
       [] OTHER -> x.v < y.v

\* x > y on doubles
DGt(x, y) == DLt(y, x)

\* x <= y on doubles: false when either side is NaN
DLeq(x, y) == ~IsNaN(x) /\ ~IsNaN(y) /\ (x = y \/ DLt(x, y))

\* x + y on doubles
DAdd(x, y) ==
  CASE IsNaN(x) \/ IsNaN(y) -> NaN
    [] x.k = "fin" /\ y.k = "fin" -> Fin(x.v + y.v)
    [] x.k = "inf" /\ y.k = "fin" -> x
    [] x.k = "fin" /\ y.k = "inf" -> y
    [] OTHER -> IF x.v = y.v THEN x ELSE NaN

\* x - y on doubles
DSub(x, y) ==
  CASE IsNaN(x) \/ IsNaN(y) -> NaN
    [] x.k = "fin" /\ y.k = "fin" -> Fin(x.v - y.v)
    [] x.k = "inf" /\ y.k = "fin" -> x
    [] x.k = "fin" /\ y.k = "inf" -> [k |-> "inf", v |-> 0 - y.v]
    [] OTHER -> IF x.v # y.v THEN x ELSE NaN

InRange(x) == x.k = "fin" => (x.v <= MaxBalance /\ 0 - x.v <= MaxBalance)

(* ---------------------------- state ------------------------------------ *)
VARIABLES
  heap,        \* address -> Account object [account_number, pin, balance]
  accounts,    \* ATM::accounts: account number -> address
  pc,          \* position of main(): "unauth", "menu" or "done"
  account,     \* main()'s Account* account (Null before a successful login)
  choice,      \* main()'s int choice (0 before the first read)
  last,        \* the last call made: operation, arguments and what it returned
  old,         \* heap and registry as they were before the last call
  regLog       \* addresses passed to add_account, in call order

vars == <<heap, accounts, pc, account, choice, last, old, regLog>>

Null == 0

MsgOk == "Transaction successful"
MsgFailed == "Transaction failed"
MsgInvalidKind == "Invalid transaction type"

NoCall ==
  [op |-> "none", obj |-> Null, id |-> "", pin |-> "", kind |-> "",
   amount |-> Fin(0), ok |-> FALSE, msg |-> "", handle |-> Null, bal |-> Fin(0)]

(* ---------------------------- Account ---------------------------------- *)
\* Account::Account
NewAccountObj(number, p, bal) == [account_number |-> number, pin |-> p, balance |-> bal]

\* Account::check_balance
Account_check_balance(h, o) == h[o].balance

\* variant: the guard is amount >= 0
Account_deposit_geq(h, o, amount) ==
  IF DLeq(Fin(0), amount)
    THEN [heap |-> [h EXCEPT ![o].balance = DAdd(h[o].balance, amount)], ret |-> TRUE]
    ELSE [heap |-> h, ret |-> FALSE]

\* variant: balance = amount in place of balance += amount
Account_deposit_assign(h, o, amount) ==
  IF DGt(amount, Fin(0))
    THEN [heap |-> [h EXCEPT ![o].balance = amount], ret |-> TRUE]
    ELSE [heap |-> h, ret |-> FALSE]

\* Account::deposit: the heap after the call and the value returned
Account_deposit(h, o, amount) ==
  IF DGt(amount, Fin(0))
    THEN [heap |-> [h EXCEPT ![o].balance = DAdd(h[o].balance, amount)], ret |-> TRUE]
    ELSE [heap |-> h, ret |-> FALSE]

\* Account::withdraw: the heap after the call and the value returned
Account_withdraw(h, o, amount) ==
  IF DGt(amount, Fin(0)) /\ DLeq(amount, h[o].balance)
    THEN [heap |-> [h EXCEPT ![o].balance = DSub(h[o].balance, amount)], ret |-> TRUE]
    ELSE [heap |-> h, ret |-> FALSE]

\* Account::verify_pin
Account_verify_pin(h, o, entered_pin) == h[o].pin = entered_pin

\* Account::get_account_number
get_account_number(h, o) == h[o].account_number

(* ---------------------------- Transaction ------------------------------ *)
\* Deposit::execute
Deposit_execute(h, o, amount) == Account_deposit(h, o, amount)

\* Withdrawal::execute
Withdrawal_execute(h, o, amount) == Account_withdraw(h, o, amount)

(* ---------------------------- ATM -------------------------------------- *)
\* variant: accounts.insert, which keeps an entry already present
add_account_insert(reg, h, o) ==
  [n \in (DOMAIN reg) \cup {get_account_number(h, o)} |->
     IF n \in DOMAIN reg THEN reg[n] ELSE o]

\* ATM::add_account: the registry after the call
add_account(reg, h, o) ==
  [n \in (DOMAIN reg) \cup {get_account_number(h, o)} |->
     IF n = get_account_number(h, o) THEN o ELSE reg[n]]

\* variant: the PIN is not compared
ATM_verify_pin_nopin(reg, h, account_number, p) ==
  IF account_number \in DOMAIN reg
    THEN reg[account_number]
    ELSE Null

\* ATM::verify_pin: the handle returned, Null for nullptr
ATM_verify_pin(reg, h, account_number, p) ==
  IF account_number \in DOMAIN reg /\ Account_verify_pin(h, reg[account_number], p)
    THEN reg[account_number]
    ELSE Null

\* variant: any kind other than "deposit" is taken as a withdrawal
select_transaction_else(h, o, transaction_type, amount) ==
  IF transaction_type = "deposit"
    THEN LET r == Deposit_execute(h, o, amount)
         IN [heap |-> r.heap, msg |-> IF r.ret THEN MsgOk ELSE MsgFailed]
    ELSE LET r == Withdrawal_execute(h, o, amount)
         IN [heap |-> r.heap, msg |-> IF r.ret THEN MsgOk ELSE MsgFailed]

\* variant: the transaction is executed twice
select_transaction_twice(h, o, transaction_type, amount) ==
  IF transaction_type = "deposit"
    THEN LET r == Deposit_execute(Deposit_execute(h, o, amount).heap, o, amount)
         IN [heap |-> r.heap, msg |-> IF r.ret THEN MsgOk ELSE MsgFailed]
    ELSE IF transaction_type = "withdraw"
      THEN LET r == Withdrawal_execute(Withdrawal_execute(h, o, amount).heap, o, amount)
           IN [heap |-> r.heap, msg |-> IF r.ret THEN MsgOk ELSE MsgFailed]
      ELSE [heap |-> h, msg |-> MsgInvalidKind]

\* ATM::select_transaction: the heap after the call and the message returned
select_transaction(h, o, transaction_type, amount) ==
  IF transaction_type = "deposit"
    THEN LET r == Deposit_execute(h, o, amount)
         IN [heap |-> r.heap, msg |-> IF r.ret THEN MsgOk ELSE MsgFailed]
    ELSE IF transaction_type = "withdraw"
      THEN LET r == Withdrawal_execute(h, o, amount)
           IN [heap |-> r.heap, msg |-> IF r.ret THEN MsgOk ELSE MsgFailed]
      ELSE [heap |-> h, msg |-> MsgInvalidKind]

\* ATM::check_balance
ATM_check_balance(h, o) == Account_check_balance(h, o)

(* ---------------------------- inputs ----------------------------------- *)
\* tokens read for the account number and the PIN ("" is what a read at
\* end of input leaves in the string)
Numbers == {"123456", "654321", "777777", ""}
Pins == {"1234", "4321", "0000", ""}

\* values read into int choice (also what an unset choice may hold)
Choices == 0..5

\* values read into double amount; a read that fails before extraction
\* leaves the uninitialized amount holding any double
Amounts == {Fin(0 - 100), Fin(0), Fin(100), Fin(200), Fin(500), Fin(1000), PInf, NInf, NaN}

(* ---------------------------- main() ----------------------------------- *)
\* main(): account1, account2 constructed and registered
SeedHeap ==
  (1 :> NewAccountObj("123456", "1234", Fin(1000))) @@
  (2 :> NewAccountObj("654321", "4321", Fin(500)))

SeedAccounts == add_account(add_account(<<>>, SeedHeap, 1), SeedHeap, 2)

Init ==
  /\ heap = SeedHeap
  /\ accounts = SeedAccounts
  /\ pc = "unauth"
  /\ account = Null
  /\ choice = 0
  /\ last = NoCall
  /\ old = [heap |-> SeedHeap, accounts |-> SeedAccounts]
  /\ regLog = <<1, 2>>

Snapshot == old' = [heap |-> heap, accounts |-> accounts]

\* one pass of the outer while loop: read the credentials, verify them
Authenticate(number, p) ==
  /\ pc = "unauth"
  /\ LET a == ATM_verify_pin(accounts, heap, number, p)
     IN /\ account' = a
        /\ pc' = IF a # Null THEN "menu" ELSE "unauth"
        /\ last' = [NoCall EXCEPT !.op = "login", !.id = number, !.pin = p,
                                  !.handle = a, !.ok = (a # Null)]
  /\ Snapshot
  /\ UNCHANGED <<heap, accounts, choice, regLog>>

\* menu option 1
OptionCheckBalance ==
  /\ pc = "menu"
  /\ choice' = 1
  /\ last' = [NoCall EXCEPT !.op = "option1", !.obj = account,
                            !.bal = ATM_check_balance(heap, account)]
  /\ Snapshot
  /\ UNCHANGED <<heap, accounts, pc, account, regLog>>

\* variant: the deposit is made on account1, not on the authenticated account
OptionDeposit_account1(amount) ==
  /\ pc = "menu"
  /\ choice' = 2
  /\ LET r == select_transaction(heap, 1, "deposit", amount)
     IN /\ InRange(r.heap[1].balance)
        /\ heap' = r.heap
        /\ last' = [NoCall EXCEPT !.op = "option2", !.obj = account, !.kind = "deposit",
                                  !.amount = amount, !.msg = r.msg]
  /\ Snapshot
  /\ UNCHANGED <<accounts, pc, account, regLog>>

\* menu option 2
OptionDeposit(amount) ==
  /\ pc = "menu"
  /\ choice' = 2
  /\ LET r == select_transaction(heap, account, "deposit", amount)
     IN /\ InRange(r.heap[account].balance)
        /\ heap' = r.heap
        /\ last' = [NoCall EXCEPT !.op = "option2", !.obj = account, !.kind = "deposit",
                                  !.amount = amount, !.msg = r.msg]
  /\ Snapshot
  /\ UNCHANGED <<accounts, pc, account, regLog>>

\* menu option 3
OptionWithdraw(amount) ==
  /\ pc = "menu"
  /\ choice' = 3
  /\ LET r == select_transaction(heap, account, "withdraw", amount)
     IN /\ InRange(r.heap[account].balance)
        /\ heap' = r.heap
        /\ last' = [NoCall EXCEPT !.op = "option3", !.obj = account, !.kind = "withdraw",
                                  !.amount = amount, !.msg = r.msg]
  /\ Snapshot
  /\ UNCHANGED <<accounts, pc, account, regLog>>

\* variant: the break after the do-while is missing, the outer loop prompts again
OptionExit_reprompt ==
  /\ pc = "menu"
  /\ choice' = 4
  /\ pc' = "unauth"
  /\ last' = [NoCall EXCEPT !.op = "option4", !.obj = account]
  /\ Snapshot
  /\ UNCHANGED <<heap, accounts, account, regLog>>

\* menu option 4: the do-while ends, the outer loop breaks, main returns
OptionExit ==
  /\ pc = "menu"
  /\ choice' = 4
  /\ pc' = "done"
  /\ last' = [NoCall EXCEPT !.op = "option4", !.obj = account]
  /\ Snapshot
  /\ UNCHANGED <<heap, accounts, account, regLog>>

\* any other choice: the default branch
OptionInvalid(c) ==
  /\ pc = "menu"
  /\ c \notin 1..4
  /\ choice' = c
  /\ last' = [NoCall EXCEPT !.op = "invalid", !.obj = account]
  /\ Snapshot
  /\ UNCHANGED <<heap, accounts, pc, account, regLog>>

Next ==
  \/ \E number \in Numbers, p \in Pins : Authenticate(number, p)
  \/ OptionCheckBalance
  \/ \E amount \in Amounts : OptionDeposit(amount)
  \/ \E amount \in Amounts : OptionWithdraw(amount)
  \/ OptionExit
  \/ \E c \in Choices : OptionInvalid(c)

Spec == Init /\ [][Next]_vars

(* ---------------------------- transactions, call by call --------------- *)
\* arguments of the calls
TxAmounts == {Fin(0 - 1), Fin(0), Fin(1), Fin(2), PInf, NInf, NaN}
TxBalances == {Fin(0 - 1), Fin(0), Fin(1), PInf, NInf, NaN}
Kinds == {"deposit", "withdraw", "Deposit", "transfer"}

TxInRange(x) == x.k = "fin" => (x.v <= TxMaxBalance /\ 0 - x.v <= TxMaxBalance)

\* MaxAccounts accounts constructed, each with a balance drawn from TxBalances
TxInit ==
  /\ heap \in [1..MaxAccounts -> {NewAccountObj("123456", "1234", b) : b \in TxBalances}]
  /\ accounts = <<>>
  /\ pc = "unauth"
  /\ account = Null
  /\ choice = 0
  /\ last = NoCall
  /\ old = [heap |-> heap, accounts |-> <<>>]
  /\ regLog = <<>>

\* atm.select_transaction(&o, kind, amount)
CallSelectTransaction(o, kind, amount) ==
  /\ LET r == select_transaction(heap, o, kind, amount)
     IN /\ TxInRange(r.heap[o].balance)
        /\ heap' = r.heap
        /\ last' = [NoCall EXCEPT !.op = "select_transaction", !.obj = o, !.kind = kind,
                                  !.amount = amount, !.msg = r.msg]
  /\ Snapshot
  /\ UNCHANGED <<accounts, pc, account, choice, regLog>>

\* o.deposit(amount)
CallDeposit(o, amount) ==
  /\ LET r == Account_deposit(heap, o, amount)
     IN /\ TxInRange(r.heap[o].balance)
        /\ heap' = r.heap
        /\ last' = [NoCall EXCEPT !.op = "deposit", !.obj = o, !.amount = amount, !.ok = r.ret]
  /\ Snapshot
  /\ UNCHANGED <<accounts, pc, account, choice, regLog>>

\* o.withdraw(amount)
CallWithdraw(o, amount) ==
  /\ LET r == Account_withdraw(heap, o, amount)
     IN /\ TxInRange(r.heap[o].balance)
        /\ heap' = r.heap
        /\ last' = [NoCall EXCEPT !.op = "withdraw", !.obj = o, !.amount = amount, !.ok = r.ret]
  /\ Snapshot
  /\ UNCHANGED <<accounts, pc, account, choice, regLog>>

\* atm.check_balance(&o)
CallCheckBalance(o) ==
  /\ last' = [NoCall EXCEPT !.op = "check_balance", !.obj = o, !.bal = ATM_check_balance(heap, o)]
  /\ Snapshot
  /\ UNCHANGED <<heap, accounts, pc, account, choice, regLog>>

TxNext ==
  \/ \E o \in DOMAIN heap, kind \in Kinds, amount \in TxAmounts : CallSelectTransaction(o, kind, amount)
  \/ \E o \in DOMAIN heap, amount \in TxAmounts : CallDeposit(o, amount)
  \/ \E o \in DOMAIN heap, amount \in TxAmounts : CallWithdraw(o, amount)
  \/ \E o \in DOMAIN heap : CallCheckBalance(o)

TxSpec == TxInit /\ [][TxNext]_vars

(* ---------------------------- registry, call by call ------------------- *)
\* arguments of the calls
RegNumbers == {"123456", "654321"}
RegPins == {"1234", "4321"}
LookupNumbers == RegNumbers \cup {"777777"}
LookupPins == RegPins \cup {""}

\* ATM atm; no account constructed yet
RegInit ==
  /\ heap = <<>>
  /\ accounts = <<>>
  /\ pc = "unauth"
  /\ account = Null
  /\ choice = 0
  /\ last = NoCall
  /\ old = [heap |-> <<>>, accounts |-> <<>>]
  /\ regLog = <<>>

\* Account a(number, p): a new object at the next free address, balance 0
CallNewAccount(number, p) ==
  LET o == Cardinality(DOMAIN heap) + 1
  IN /\ o <= MaxAccounts
     /\ heap' = heap @@ (o :> NewAccountObj(number, p, Fin(0)))
     /\ last' = [NoCall EXCEPT !.op = "new", !.obj = o, !.id = number, !.pin = p]
     /\ Snapshot
     /\ UNCHANGED <<accounts, pc, account, choice, regLog>>

\* atm.add_account(&o)
CallAddAccount(o) ==
  /\ Len(regLog) < MaxRegistrations
  /\ accounts' = add_account(accounts, heap, o)
  /\ regLog' = Append(regLog, o)
  /\ last' = [NoCall EXCEPT !.op = "add_account", !.obj = o, !.id = get_account_number(heap, o)]
  /\ Snapshot
  /\ UNCHANGED <<heap, pc, account, choice>>

\* atm.verify_pin(number, p)
CallVerifyPin(number, p) ==
  /\ last' = [NoCall EXCEPT !.op = "verify_pin", !.id = number, !.pin = p,
                            !.handle = ATM_verify_pin(accounts, heap, number, p)]
  /\ Snapshot
  /\ UNCHANGED <<heap, accounts, pc, account, choice, regLog>>

RegNext ==
  \/ \E number \in RegNumbers, p \in RegPins : CallNewAccount(number, p)
  \/ \E o \in DOMAIN heap : CallAddAccount(o)
  \/ \E number \in LookupNumbers, p \in LookupPins : CallVerifyPin(number, p)

RegSpec == RegInit /\ [][RegNext]_vars

(* ---------------------------- properties ------------------------------- *)
Zero == Fin(0)

\* C1: Account::withdraw on balance b with amount a: if 0 < a <= b the
\* balance becomes b - a and the call returns true, and withdrawing the
\* whole balance (a = b) leaves 0; if a <= 0 or a > b the balance stays b
\* and the call returns false.
C1_Withdraw ==
  last.op = "withdraw" =>
    LET a == last.amount
        b == old.heap[last.obj].balance
        now == heap[last.obj].balance
    IN /\ (DGt(a, Zero) /\ DLeq(a, b)) => (now = DSub(b, a) /\ last.ok)
       /\ (DGt(a, Zero) /\ a = b) => (now = Zero /\ last.ok)
       /\ (DLeq(a, Zero) \/ DGt(a, b)) => (now = b /\ ~last.ok)

\* C2: Account::deposit on balance b with amount a: if a > 0 the balance
\* becomes b + a and the call returns true; if a <= 0 (a = 0 included) the
\* balance stays b and the call returns false.
C2_Deposit ==
  last.op = "deposit" =>
    LET a == last.amount
        b == old.heap[last.obj].balance
        now == heap[last.obj].balance
    IN /\ DGt(a, Zero) => (now = DAdd(b, a) /\ last.ok)
       /\ (a.k = "fin" /\ b.k = "fin" /\ 0 < a.v) => now = Fin(b.v + a.v)
       /\ DLeq(a, Zero) => (now = b /\ ~last.ok)

\* a deposit of a positive finite amount on a finite balance has succeeded
C2_Witness ==
  /\ last.op = "deposit"
  /\ last.ok
  /\ last.amount.k = "fin"
  /\ old.heap[last.obj].balance.k = "fin"
  /\ heap[last.obj].balance = Fin(old.heap[last.obj].balance.v + last.amount.v)
  /\ heap[last.obj].balance # old.heap[last.obj].balance

\* C3: ATM::verify_pin returns a handle iff the number is registered and the
\* pin equals the PIN of the account registered under it; the handle is that
\* account; neither a balance nor the registry changes.
C3_VerifyPin ==
  last.op = "verify_pin" =>
    /\ last.handle # Null <=>
         (last.id \in DOMAIN accounts /\ heap[accounts[last.id]].pin = last.pin)
    /\ last.handle # Null => last.handle = accounts[last.id]
    /\ last.id \notin DOMAIN accounts => last.handle = Null
    /\ heap = old.heap
    /\ accounts = old.accounts

\* a lookup has been refused although the pin given is the PIN of another
\* registered account
C3_Witness ==
  /\ last.op = "verify_pin"
  /\ last.handle = Null
  /\ last.id \in DOMAIN accounts
  /\ \E n \in DOMAIN accounts : n # last.id /\ heap[accounts[n]].pin = last.pin

\* C4: ATM::select_transaction with a kind other than "deposit" and
\* "withdraw" returns "Invalid transaction type" and changes no balance.
C4_InvalidKind ==
  (last.op = "select_transaction" /\ last.kind \notin {"deposit", "withdraw"}) =>
    (last.msg = MsgInvalidKind /\ heap = old.heap)

\* an invalid kind was refused with an amount the account could have paid
C4_Witness ==
  /\ last.op = "select_transaction"
  /\ last.kind = "transfer"
  /\ last.msg = MsgInvalidKind
  /\ DGt(last.amount, Zero)
  /\ DLeq(last.amount, heap[last.obj].balance)

\* C5 as stated: select_transaction with kind "deposit" or "withdraw" applies
\* the mutation once and returns "Transaction successful" iff it succeeded;
\* it returns "Transaction failed" exactly when the amount is non-positive or
\* a withdrawal exceeds the balance, and then the balance is unchanged.
C5_Original ==
  (last.op = "select_transaction" /\ last.kind \in {"deposit", "withdraw"}) =>
    LET a == last.amount
        b == old.heap[last.obj].balance
        now == heap[last.obj].balance
    IN /\ last.msg \in {MsgOk, MsgFailed}
       /\ last.msg = MsgOk =>
            now = (IF last.kind = "deposit" THEN DAdd(b, a) ELSE DSub(b, a))
       /\ last.msg = MsgFailed <=>
            (DLeq(a, Zero) \/ (last.kind = "withdraw" /\ DGt(a, b)))
       /\ last.msg = MsgFailed => now = b

\* C5 amended: ... it returns "Transaction failed" exactly when the amount is
\* not greater than 0 (non-positive or NaN) or, for a withdrawal, the amount
\* is not <= the balance (it exceeds it, or the balance is NaN), and then the
\* balance is unchanged; otherwise it returns "Transaction successful" and
\* the balance has changed by the amount once.
C5_SelectTransaction ==
  (last.op = "select_transaction" /\ last.kind \in {"deposit", "withdraw"}) =>
    LET a == last.amount
        b == old.heap[last.obj].balance
        now == heap[last.obj].balance
    IN /\ last.msg \in {MsgOk, MsgFailed}
       /\ last.msg = MsgOk =>
            now = (IF last.kind = "deposit" THEN DAdd(b, a) ELSE DSub(b, a))
       /\ last.msg = MsgFailed <=>
            (~DGt(a, Zero) \/ (last.kind = "withdraw" /\ ~DLeq(a, b)))
       /\ last.msg = MsgFailed => now = b

\* a transaction with a NaN amount has been reported as failed
C5_Witness ==
  /\ last.op = "select_transaction"
  /\ last.kind \in {"deposit", "withdraw"}
  /\ IsNaN(last.amount)
  /\ last.msg = MsgFailed
  /\ heap = old.heap

\* C6: the session starts Unauthenticated; a failed login leaves it there, a
\* successful one moves it to the menu loop; from the menu loop it never
\* returns to Unauthenticated: choice 4 ends the program, any other choice
\* stays in the menu loop.
C6_Session ==
  /\ pc = "unauth"
  /\ [][/\ pc = "unauth" => pc' = (IF account' # Null THEN "menu" ELSE "unauth")
        /\ pc = "menu" => pc' = (IF choice' = 4 THEN "done" ELSE "menu")
        /\ pc = "done" => pc' = "done"]_vars

\* the program has ended by choice 4 of an authenticated session
C6_Witness ==
  /\ pc = "done"
  /\ choice = 4
  /\ account # Null
  /\ last.op = "option4"

\* the account registered last under number n
Latest(n) ==
  LET idx == {i \in 1..Len(regLog) : heap[regLog[i]].account_number = n}
  IN regLog[CHOOSE i \in idx : \A j \in idx : j <= i]

\* C7: the registry maps each number ever registered to the account
\* registered last under it, and no other number; add_account leaves the
\* other numbers as they were; verify_pin resolves a number to that last
\* account and checks the pin against it.
C7_AddAccount ==
  /\ \A n \in LookupNumbers :
       n \in DOMAIN accounts <=>
         \E i \in 1..Len(regLog) : heap[regLog[i]].account_number = n
  /\ \A n \in DOMAIN accounts : accounts[n] = Latest(n)
  /\ last.op = "add_account" =>
       /\ accounts[last.id] = last.obj
       /\ \A n \in LookupNumbers \ {last.id} :
            /\ n \in DOMAIN accounts <=> n \in DOMAIN old.accounts
            /\ n \in DOMAIN accounts => accounts[n] = old.accounts[n]
  /\ (last.op = "verify_pin" /\ last.id \in DOMAIN accounts) =>
       /\ last.handle # Null <=> heap[Latest(last.id)].pin = last.pin
       /\ last.handle # Null => last.handle = Latest(last.id)

\* a lookup succeeded with the PIN of the account registered second under a
\* number, which is not the PIN of the account registered first under it
C7_Witness ==
  /\ last.op = "verify_pin"
  /\ last.handle # Null
  /\ \E i \in 1..Len(regLog) :
       /\ regLog[i] # last.handle
       /\ heap[regLog[i]].account_number = last.id
       /\ heap[regLog[i]].pin # last.pin
       /\ \E j \in (i + 1)..Len(regLog) : regLog[j] = last.handle

\* C8: the login "123456" / "1234" yields the account with balance 1000; a
\* deposit of 200 made then leaves 1200 and a withdrawal of 100 made after
\* it leaves 1100, both reported as successful.
C8_Scenario ==
  [][/\ (last'.op = "login" /\ last'.id = "123456" /\ last'.pin = "1234") =>
          (account' # Null /\ heap'[account'].balance = Fin(1000))
     /\ (last.op = "login" /\ last.id = "123456" /\ last.pin = "1234"
           /\ last'.op = "option2" /\ last'.amount = Fin(200)) =>
          (heap'[account].balance = Fin(1200) /\ last'.msg = MsgOk)
     /\ (last.op = "option2" /\ last.amount = Fin(200)
           /\ old.heap[account].balance = Fin(1000)
           /\ heap[account].account_number = "123456"
           /\ last'.op = "option3" /\ last'.amount = Fin(100)) =>
          (heap'[account].balance = Fin(1100) /\ last'.msg = MsgOk)]_vars

\* the withdrawal of 100 from 1200 on account "123456" has just succeeded
C8_Witness ==
  /\ last.op = "option3"
  /\ last.amount = Fin(100)
  /\ last.msg = MsgOk
  /\ heap[account].account_number = "123456"
  /\ old.heap[account].balance = Fin(1200)
  /\ heap[account].balance = Fin(1100)

\* C9: every account's balance is >= 0 in every reachable state of the program.
C9_NonNegative == \A o \in DOMAIN heap : DLeq(Zero, heap[o].balance)

\* C10: no balance changes while the session is Unauthenticated; an account
\* other than the authenticated one keeps its seed balance; a deposit or a
\* withdrawal changes only the authenticated account; option 1 and an
\* invalid choice change no balance.
C10_Isolation ==
  /\ pc = "unauth" => heap = SeedHeap
  /\ \A o \in DOMAIN heap : o # account => heap[o] = SeedHeap[o]
  /\ last.op \in {"option2", "option3"} =>
       (last.obj = account /\ \A o \in DOMAIN heap : o # account => heap[o] = old.heap[o])
  /\ last.op \in {"login", "option1", "invalid"} => heap = old.heap

\* account "654321" is authenticated and its balance has left the seed
\* balance, account "123456" still has its own
C10_Witness ==
  /\ pc = "menu"
  /\ account = 2
  /\ last.op \in {"option2", "option3"}
  /\ heap[2].balance # SeedHeap[2].balance
  /\ heap[1] = SeedHeap[1]

====
